---- MODULE Spec2Model ----
(***************************************************************************)
(* A model of scripts/modules/ai-services.js (src/unnamed/part_001): the   *)
(* retry controller around the Gemini and Perplexity providers.           *)
(*                                                                         *)
(* A message is a sequence of text fragments; String.includes(term) is    *)
(* modelled by TermsIn, the table of the retry terms each fragment        *)
(* contains once lower-cased.  A response text is a sequence of JSON      *)
(* tokens: "{" and "}" are the braces, "t" is the member "tasks":[...]     *)
(* with one element, "s" the same with two elements, "n" is a member      *)
(* "tasks":<not an array>, "m" is the key "metadata": (which needs an     *)
(* object after it) and "x" is any text that is not JSON.                 *)
(***************************************************************************)
EXTENDS Integers, Sequences, FiniteSets, TLC

(* ---------------------------- bounds ---------------------------------- *)
MaxLen == 3        \* longest enumerated response text, in tokens
HistCap == 4       \* history counters saturate here (never reached by the code)
RequestCap == 10   \* the count of all requests of a run stops there

(* ------------------------ program constants --------------------------- *)
MaxRetries == 2          \* callGemini: retryCount < 2
BackoffUnit == 5000      \* (retryCount + 1) * 5000
CleanupBudget == 3       \* processGeminiResponse: retryCount < 3
RepairBudget == 2        \* processGeminiResponse: retryCount < 2
ResearchRetries == 2     \* expandTaskWithResearch: retryCount < 2

Terms == {"overloaded", "rate limit", "timeout", "network"}

(* ------------------------- message fragments -------------------------- *)
MsgOverloaded == "Gemini is currently experiencing high demand and is overloaded. Please wait a few minutes and try again."
MsgRateLimit == "You have exceeded the rate limit. Please wait a few minutes before making more requests."
MsgInvalidRequest == "There was an issue with the request format. If this persists, please report it as a bug."
MsgTimedOut == "The request to Gemini timed out. Please try again."
MsgNetwork == "There was a network error connecting to Gemini. Please check your internet connection and try again."
PfxApiError == "Gemini API error: "
PfxCommunicating == "Error communicating with Gemini: "
PfxFixFailed == "Failed to fix JSON response: "
PfxProcessFailed == "Failed to process response: "
MsgNoJson == "No valid JSON found in the response"
MsgParseFailed == "Failed to parse JSON response after multiple attempts"
MsgMissingKey == "PERPLEXITY_API_KEY environment variable is missing. Set it to use research-backed features."
MsgComplexityParse == "Failed to parse complexity analysis"
MsgFixSubtasks == "Failed to fix subtasks JSON after retry"
Undefined == "undefined"

\* The retry terms a fragment contains after toLowerCase().
TermsIn(frag) ==
  CASE frag = "Model is overloaded" -> {"overloaded"}
    [] frag = "Rate limit exceeded" -> {"rate limit"}
    [] frag = "Request timeout" -> {"timeout"}
    [] frag = "Network error occurred" -> {"network"}
    [] frag = "Network timeout" -> {"timeout", "network"}
    [] frag = MsgOverloaded -> {"overloaded"}
    [] frag = MsgRateLimit -> {"rate limit"}
    [] frag = MsgNetwork -> {"network"}
    [] OTHER -> {}

\* message?.toLowerCase().includes(term)
Includes(message, term) == \E i \in 1..Len(message) : term \in TermsIn(message[i])

(* ------------------------------ errors -------------------------------- *)
\* new Error(message): no .type, no .error
NewError(message) ==
  [type |-> Undefined, etype |-> Undefined, emessage |-> <<>>, message |-> message]

\* { type: 'error', error: { type, message } }: no .message of its own
StructuredError(etype, emessage) ==
  [type |-> "error", etype |-> etype, emessage |-> emessage, message |-> <<Undefined>>]

NoError == [type |-> "none", etype |-> Undefined, emessage |-> <<>>, message |-> <<>>]

PlainMessages ==
  { <<"Model is overloaded">>, <<"Rate limit exceeded">>, <<"Request timeout">>,
    <<"Network error occurred">>, <<"Network timeout">>,
    <<"Request timed out after 60000ms">>, <<"Something unexpected happened">> }

ErrorTypes ==
  {"OVERLOADED_ERROR", "RATE_LIMIT_ERROR", "INVALID_REQUEST_ERROR",
   "rate_limit_error", "invalid_request_error"}

ProviderErrors ==
  { NewError(m) : m \in PlainMessages }
  \cup { StructuredError(t, m) : t \in ErrorTypes,
           m \in { <<"Gemini is experiencing high volume">>, <<"Rate limit exceeded">> } }

handleGeminiError(error) ==
  IF error.type = "error"
  THEN CASE error.etype = "OVERLOADED_ERROR" -> <<MsgOverloaded>>
         [] error.etype = "RATE_LIMIT_ERROR" -> <<MsgRateLimit>>
         [] error.etype = "INVALID_REQUEST_ERROR" -> <<MsgInvalidRequest>>
         [] OTHER -> <<PfxApiError>> \o error.emessage
  ELSE IF Includes(error.message, "timeout") THEN <<MsgTimedOut>>
  ELSE IF Includes(error.message, "network") THEN <<MsgNetwork>>
  ELSE <<PfxCommunicating>> \o error.message

\* a catch block that retries whatever the error is
IsRetryableAnyMessage(message) == TRUE

\* callGemini's test of the caught error: lines 148-151
IsRetryableMessage(message) == \E term \in Terms : Includes(message, term)

\* the budget test off by one
HasRetryBudgetOffByOne(retryCount) == retryCount <= MaxRetries

HasRetryBudget(retryCount) == retryCount < MaxRetries

\* a backoff that does not grow
WaitTimeFlat(retryCount) == BackoffUnit

WaitTime(retryCount) == (retryCount + 1) * BackoffUnit

(* --------------------------- response text ---------------------------- *)
\* the tokens the enumerated texts are made of ("s" and "m" are in the sample
\* texts only)
Chars == {"{", "}", "t", "n", "x"}

RECURSIVE SeqsUpTo(_)
SeqsUpTo(n) ==
  IF n = 0 THEN {<<>>}
  ELSE LET shorter == SeqsUpTo(n - 1)
       IN shorter \cup { Append(s, c) : s \in {u \in shorter : Len(u) = n - 1}, c \in Chars }

\* the response the prompt asks for, with and without its metadata object
WellFormedText == <<"{", "t", "m", "{", "}", "}">>
SampleTexts ==
  { WellFormedText, <<"x", "{", "t", "}", "x">>, <<"{", "m", "{", "}", "}">>,
    <<"{", "s", "}">>, <<"{", "s", "m", "{", "}", "}">>, <<"{", "t", "s", "}">>,
    <<"{", "m", "}">>, <<"m", "{", "}">>, <<"{", "m", "{", "t", "}", "}">> }

Texts == SeqsUpTo(MaxLen) \cup SampleTexts

\* String.indexOf / lastIndexOf: 0-based, -1 when absent
IndexOf(s, c) ==
  IF \E i \in 1..Len(s) : s[i] = c
  THEN (CHOOSE i \in 1..Len(s) : s[i] = c /\ \A j \in 1..(i - 1) : s[j] # c) - 1
  ELSE -1

LastIndexOf(s, c) ==
  IF \E i \in 1..Len(s) : s[i] = c
  THEN (CHOOSE i \in 1..Len(s) : s[i] = c /\ \A j \in (i + 1)..Len(s) : s[j] # c) - 1
  ELSE -1

\* String.substring(a, b): clamps to [0, length] and swaps when a > b
Clamp(i, n) == IF i < 0 THEN 0 ELSE IF i > n THEN n ELSE i

Substring(s, a, b) ==
  LET ca == Clamp(a, Len(s))
      cb == Clamp(b, Len(s))
      lo == IF ca <= cb THEN ca ELSE cb
      hi == IF ca <= cb THEN cb ELSE ca
  IN SubSeq(s, lo + 1, hi)

cleanupJsonResponse(content) ==
  LET jsonStart == IndexOf(content, "{")
      jsonEnd == LastIndexOf(content, "}")
  IN IF jsonStart = -1 \/ jsonEnd = -1 THEN content
     ELSE Substring(content, jsonStart, jsonEnd + 1)

\* JSON.parse on the token grammar  Object ::= "{" Member* "}",
\* Member ::= "t" | "s" | "n" | "m" Object.  A later "tasks" member overrides an
\* earlier one; length is the length of the tasks array, 0 when there is none.
NoValue ==
  [ok |-> FALSE, next |-> 0, tasks |-> "absent", length |-> 0, metadata |-> "absent"]

RECURSIVE ParseMembers(_, _, _, _, _)
ParseMembers(s, i, tasks, length, metadata) ==
  IF i > Len(s) THEN NoValue
  ELSE CASE s[i] = "}" -> [ok |-> TRUE, next |-> i + 1, tasks |-> tasks,
                           length |-> length, metadata |-> metadata]
         [] s[i] = "t" -> ParseMembers(s, i + 1, "array", 1, metadata)
         [] s[i] = "s" -> ParseMembers(s, i + 1, "array", 2, metadata)
         [] s[i] = "n" -> ParseMembers(s, i + 1, "other", 0, metadata)
         [] s[i] = "m" ->
              IF i + 1 <= Len(s) /\ s[i + 1] = "{"
              THEN LET inner == ParseMembers(s, i + 2, "absent", 0, "absent")
                   IN IF inner.ok
                      THEN ParseMembers(s, inner.next, tasks, length, "object")
                      ELSE NoValue
              ELSE NoValue
         [] OTHER -> NoValue

JsonParse(s) ==
  IF Len(s) >= 1 /\ s[1] = "{"
  THEN LET r == ParseMembers(s, 2, "absent", 0, "absent")
       IN IF r.ok /\ r.next = Len(s) + 1 THEN r ELSE NoValue
  ELSE NoValue

(* ---------------------- processGeminiResponse ------------------------- *)
\* The outcome of one synchronous run of processGeminiResponse:
\*   kind "return": value is the parsed result;
\*   kind "retry":  retryWithGemini(content, count) has been called;
\*   kind "throw":  an Error with this message is thrown synchronously.
\* cleanups counts the cleanup attempts the run made; failure is what was
\* wrong with the text the run was given; warned tells whether the warning
\* of line 262 was logged.
Outcome(kind, value, content, count, message, cleanups, failure) ==
  [kind |-> kind, value |-> value, content |-> content, count |-> count,
   message |-> message, cleanups |-> cleanups, failure |-> failure, warned |-> FALSE]

CanCleanup(retryCount) == retryCount < CleanupBudget

\* the repair test off by one
CanRepairOffByOne(retryCount) == retryCount <= RepairBudget

CanRepair(retryCount) == retryCount < RepairBudget

\* retryWithGemini called with the count it was reached with
NextCountSame(retryCount) == retryCount

NextCount(retryCount) == retryCount + 1

\* a shape test that accepts every parsed value
HasTasksArrayAlways(result) == TRUE

\* lines 257-259: the shape test of the parsed result
HasTasksArray(result) == result.tasks = "array"

\* a length test that never finds a difference
LengthNeverDiffers(length, numTasks) == FALSE

\* line 261
LengthDiffers(length, numTasks) == length # numTasks

\* an outer catch that asks for a repair whatever the count is
OuterCatchKeepsRepairing(textContent, retryCount, message, cleanups, failure) ==
  Outcome("retry", NoValue, textContent, NextCount(retryCount), <<>>, cleanups, failure)

\* lines 279-288: the outer catch
OuterCatch(textContent, retryCount, message, cleanups, failure) ==
  IF CanRepair(retryCount)
  THEN Outcome("retry", NoValue, textContent, NextCount(retryCount), <<>>, cleanups, failure)
  ELSE Outcome("throw", NoValue, <<>>, 0, <<PfxProcessFailed>> \o message, cleanups, failure)

RECURSIVE processGeminiResponse(_, _, _)
processGeminiResponse(textContent, numTasks, retryCount) ==
  LET jsonStart == IndexOf(textContent, "{")
      jsonEnd == LastIndexOf(textContent, "}")
  IN IF jsonStart = -1 \/ jsonEnd = -1
     THEN OuterCatch(textContent, retryCount, <<MsgNoJson>>, 0, "NoJsonFound")
     ELSE LET result == JsonParse(Substring(textContent, jsonStart, jsonEnd + 1))
              failure == IF result.ok THEN "ShapeMismatch" ELSE "MalformedJson"
          IN IF result.ok /\ HasTasksArray(result)
             THEN [Outcome("return", result, <<>>, 0, <<>>, 0, "none")
                     EXCEPT !.warned = LengthDiffers(result.length, numTasks)]
             ELSE IF CanCleanup(retryCount)
             THEN LET inner == processGeminiResponse(cleanupJsonResponse(textContent),
                                                     numTasks, retryCount + 1)
                  IN IF inner.kind = "throw"
                     THEN OuterCatch(textContent, retryCount, inner.message,
                                     inner.cleanups + 1, failure)
                     ELSE [inner EXCEPT !.cleanups = @ + 1, !.failure = failure]
             ELSE OuterCatch(textContent, retryCount, <<MsgParseFailed>>, 0, failure)

(* ------------------------------ state --------------------------------- *)
VARIABLES
  op,             \* the exported function being run, "none" before the first
  pc,             \* where that run is
  retryCount,     \* callGemini's retryCount
  procCount,      \* retryWithGemini's retryCount, while its request is outstanding
  researchRetry,  \* expandTaskWithResearch's retryCount
  useResearch,    \* the useResearch argument
  waitTime,       \* the delay of the pending setTimeout, 0 when none
  perplexity,     \* the module variable: 0 is null, k the k-th client constructed
  keyPresent,     \* process.env.PERPLEXITY_API_KEY is set
  client,         \* what getPerplexityClient last returned to its caller, 0 if nothing
  thrown,         \* message of the Error the run threw to its caller
  returned,       \* what the run returned to its caller
  researchInsights, \* the local of createSubtasksWithGemini / analyzeTaskComplexity
  args,           \* the arguments of the run: taskData.id and numTasks / numSubtasks
  outstanding,    \* the provider requests whose promise is neither resolved nor rejected
  responseText,   \* handleStreamingRequest's responseText while its stream is read
  indicators,     \* the loading indicators this run started and has not stopped
  \* history of the run, not read by any action's guard
  attempts,       \* streaming requests started
  repairs,        \* retryWithGemini requests issued for the current streamed response
  cleanups,       \* cleanup attempts of the last run of processGeminiResponse
  respKinds,      \* the responses of this attempt that failed: how many, what was
                  \* wrong with the last, and whether each was MalformedJson
                  \* through all the cleanup attempts its count allowed
  waits,          \* the backoff waits started, in order
  constructions,  \* OpenAI clients constructed by getPerplexityClient
  clientCalls,    \* calls of getPerplexityClient in this run
  provErr,        \* the provider error of the request that failed last
  caught,         \* the error callGemini's catch block was entered with
  failCause,      \* "transport" or "processing" once an error is on its way up
  sent,           \* provider requests issued in this run, by kind
  requests,       \* provider requests issued in this run, all kinds together
  warnings        \* the log('warn', ...) calls of this run, by kind

vars == <<op, pc, retryCount, procCount, researchRetry, useResearch, waitTime,
          perplexity, keyPresent, client, thrown, returned, researchInsights,
          args, outstanding, responseText, indicators,
          attempts, repairs, cleanups, respKinds, waits, constructions, clientCalls, provErr, caught,
          failCause, sent, requests, warnings>>

Terminal == {"Success", "Failed"}

\* what a run returns: a parsed JSON value or a text
NoReturn == [kind |-> "none", json |-> NoValue, text |-> ""]

ReturnJson(value) == [kind |-> "json", json |-> value, text |-> ""]

ReturnText(text) == [kind |-> "text", json |-> NoValue, text |-> text]

\* result.response.text() of a markdown request
MarkdownTexts == {"", "plan"}

\* what JSON.parse makes of the text extracted from a subtask or complexity response
JsonKinds == {"array", "object", "invalid"}

Bump(n) == IF n < HistCap THEN n + 1 ELSE n

Push(s, e) == IF Len(s) < HistCap THEN Append(s, e) ELSE s

NoResponses == [failed |-> 0, last |-> "none", stuck |-> TRUE, paired |-> TRUE]

\* the text has a "{" with a "}" somewhere after it
HasBracketPair(text) ==
  \E i \in 1..Len(text) : \E j \in (i + 1)..Len(text) : text[i] = "{" /\ text[j] = "}"

NoteFailed(resp, failure, exhausted, text) ==
  [failed |-> Bump(resp.failed), last |-> failure,
   stuck |-> resp.stuck /\ failure = "MalformedJson" /\ exhausted,
   paired |-> HasBracketPair(text)]

\* the arguments: taskData.id and the requested number of tasks or subtasks
TaskIds == {1, 2}
Counts == {1, 2}
NoArgs == [id |-> 0, count |-> 0]

\* the calls of createSubtasksWithGemini that are enumerated
SubtaskCalls == {[id |-> 1, count |-> 1], [id |-> 2, count |-> 2]}

\* the provider requests of the module, by the call that sends them
RequestKinds ==
  { "stream",      \* generateContentStream, line 185
    "repair",      \* generateContent of retryWithGemini, line 355
    "research",    \* chat.completions.create, line 406
    "refine",      \* generateContent of refineTaskWithGemini, line 471
    "fallback",    \* generateContent of expandTaskWithGemini called at line 430
    "subtasks",    \* generateContent of createSubtasksWithGemini, line 610
    "fix",         \* generateContent of fixSubtasksJson, line 706
    "complexity",  \* generateContent of analyzeTaskComplexity, line 812
    "expand" }     \* generateContent of expandTaskWithGemini, line 524

NoneSent == [k \in RequestKinds |-> 0]

\* a request that stays outstanding after the code has gone on
SettleNothing(out, done) == out

\* `await`: the code goes on once the requests in `done` have resolved or rejected
Settle(out, done) == out \ done

\* The requests in `done` settle and those in `started` are sent.
Issue(sentSoFar, done, started) ==
  /\ outstanding' = Settle(outstanding, done) \cup started
  /\ sent' = [k \in RequestKinds |->
                IF k \in started THEN Bump(sentSoFar[k]) ELSE sentSoFar[k]]
  /\ requests' = LET total == (IF sentSoFar = NoneSent THEN 0 ELSE requests)
                                + Cardinality(started)
                  IN IF total < RequestCap THEN total ELSE RequestCap

\* A loading indicator is known by the function that started it and by that
\* function's retryCount: one call of a function starts at most one.
Indicator(kind, count) == <<kind, count>>

\* const loadingIndicator = startLoadingIndicator(...)
StartLoadingIndicator(running, indicator) == running \cup {indicator}

\* stopLoadingIndicator(loadingIndicator); stopping twice is stopping once
StopLoadingIndicator(running, indicator) == running \ {indicator}

\* the indicator of the function that sends `request`
IndicatorOf(request) ==
  Indicator(IF request = "fallback" THEN "expand" ELSE request, 0)

Init ==
  /\ op = "none"
  /\ pc = "idle"
  /\ retryCount = 0
  /\ procCount = 0
  /\ researchRetry = 0
  /\ useResearch = FALSE
  /\ waitTime = 0
  /\ perplexity = 0
  /\ keyPresent \in BOOLEAN
  /\ client = 0
  /\ thrown = <<>>
  /\ returned = NoReturn
  /\ researchInsights = ""
  /\ args = NoArgs
  /\ outstanding = {}
  /\ responseText = <<>>
  /\ indicators = {}
  /\ sent = NoneSent
  /\ requests = 0
  /\ warnings = {}
  /\ attempts = 0
  /\ repairs = 0
  /\ cleanups = 0
  /\ respKinds = NoResponses
  /\ waits = <<>>
  /\ constructions = 0
  /\ clientCalls = 0
  /\ provErr = NoError
  /\ caught = NoError
  /\ failCause = "none"

(* ----------------------------- callGemini ----------------------------- *)
\* lines 141-164: callGemini's catch block, entered with `error` once the
\* request in `done` has settled.
CallGeminiCatch(error, done) ==
  /\ caught' = error
  /\ Issue(sent, done, {})
  /\ IF HasRetryBudget(retryCount) /\ IsRetryableMessage(error.message)
     THEN /\ pc' = "cg_backoff"
          /\ waitTime' = WaitTime(retryCount)
          /\ waits' = Push(waits, WaitTime(retryCount))
          /\ thrown' = <<>>
     ELSE /\ pc' = "Failed"
          /\ waitTime' = 0
          /\ waits' = waits
          /\ thrown' = handleGeminiError(error)

\* What follows a run of processGeminiResponse started with retryCount `count`;
\* `wrap` is what the enclosing function's catch makes of a synchronous throw.
\* `text` is the text the run was given and `done` the request that brought it.
AfterProcessing(out, count, wrap(_), text, done) ==
  /\ cleanups' = out.cleanups
  /\ respKinds' = IF out.failure = "none" THEN respKinds
                  ELSE NoteFailed(respKinds, out.failure,
                                  count + out.cleanups = CleanupBudget, text)
  /\ provErr' = NoError
  /\ warnings' = IF out.warned THEN warnings \cup {"TaskCount"} ELSE warnings
  /\ CASE out.kind = "return" ->
            /\ pc' = "Success"
            /\ returned' = ReturnJson(out.value)
            /\ Issue(sent, done, {})
            /\ UNCHANGED <<procCount, repairs, waitTime, waits, thrown, caught, failCause>>
       [] out.kind = "retry" ->
            /\ pc' = "cg_repairing"
            /\ procCount' = out.count
            /\ repairs' = Bump(repairs)
            /\ Issue(sent, done, {"repair"})
            /\ UNCHANGED <<returned, waitTime, waits, thrown, caught, failCause>>
       [] out.kind = "throw" ->
            /\ failCause' = "processing"
            /\ CallGeminiCatch(wrap(out.message), done)
            /\ UNCHANGED <<procCount, repairs, returned>>

MaxChunks == 2     \* chunks told apart before the last one of a stream

\* chunk.text() of line 204
StreamChunks == { <<c>> : c \in Chars }

\* the chunk replaces what was read before
AccumulateLatest(text, chunkText) == chunkText

\* line 205: responseText += chunkText
Accumulate(text, chunkText) == text \o chunkText

IsPrefix(p, t) == Len(p) <= Len(t) /\ SubSeq(t, 1, Len(p)) = p

\* lines 214-228: handleStreamingRequest's catch
StreamingCatch(error) == NewError(handleGeminiError(error))

\* lines 366-371: retryWithGemini's catch
RepairCatch(error) == NewError(<<PfxFixFailed>> \o error.message)

StreamingCatchOfThrow(message) == StreamingCatch(NewError(message))

RepairCatchOfThrow(message) == RepairCatch(NewError(message))

\* generateContentStream or the stream itself fails (lines 185-206, 214-228, 141-164).
StreamFails ==
  /\ pc = "cg_streaming"
  /\ \E e \in ProviderErrors :
       /\ provErr' = e
       /\ CallGeminiCatch(StreamingCatch(e), {"stream"})
  /\ failCause' = "transport"
  /\ responseText' = <<>>
  /\ indicators' = StopLoadingIndicator(indicators, IndicatorOf("stream"))
  /\ UNCHANGED <<op, retryCount, procCount, researchRetry, useResearch, perplexity,
                 keyPresent, client, returned, researchInsights, attempts, repairs,
                 cleanups, respKinds, constructions, clientCalls, args, warnings>>

\* A chunk of the stream arrives and is appended (lines 203-206); nothing else
\* happens until the stream ends.
ChunkArrives ==
  /\ pc = "cg_streaming"
  /\ Len(responseText) < MaxChunks
  /\ \E chunkText \in StreamChunks : responseText' = Accumulate(responseText, chunkText)
  /\ UNCHANGED <<op, pc, retryCount, procCount, researchRetry, useResearch, waitTime,
                 perplexity, keyPresent, client, thrown, returned, researchInsights,
                 attempts, repairs, cleanups, respKinds, waits, constructions,
                 clientCalls, provErr, caught, failCause, args, outstanding, sent,
                 warnings, indicators, requests>>

\* The last chunk arrives and the stream ends; the accumulated text is
\* processed (lines 203-213).
StreamCompletes ==
  /\ pc = "cg_streaming"
  /\ \E text \in Texts :
       /\ IsPrefix(responseText, text)
       /\ LET chunkText == SubSeq(text, Len(responseText) + 1, Len(text))
              accumulated == Accumulate(responseText, chunkText)
          IN AfterProcessing(processGeminiResponse(accumulated, args.count, 0), 0,
                             StreamingCatchOfThrow, accumulated, {"stream"})
  /\ responseText' = <<>>
  /\ indicators' = StopLoadingIndicator(indicators, IndicatorOf("stream"))
  /\ UNCHANGED <<op, retryCount, researchRetry, useResearch, perplexity, keyPresent,
                 client, researchInsights, attempts, constructions, clientCalls, args>>

\* retryWithGemini's generateContent fails (lines 355-361, 366-371, 141-164).
RepairFails ==
  /\ pc = "cg_repairing"
  /\ \E e \in ProviderErrors :
       /\ provErr' = e
       /\ CallGeminiCatch(RepairCatch(e), {"repair"})
  /\ failCause' = "transport"
  /\ UNCHANGED <<op, retryCount, procCount, researchRetry, useResearch, perplexity,
                 keyPresent, client, returned, researchInsights, attempts, repairs,
                 cleanups, respKinds, constructions, clientCalls, args, warnings,
                 responseText, indicators>>

\* retryWithGemini's response arrives and is processed (lines 363-364).
RepairCompletes ==
  /\ pc = "cg_repairing"
  /\ \E text \in Texts :
       AfterProcessing(processGeminiResponse(text, args.count, procCount), procCount,
                       RepairCatchOfThrow, text, {"repair"})
  /\ UNCHANGED <<op, retryCount, researchRetry, useResearch, perplexity, keyPresent,
                 client, researchInsights, attempts, constructions, clientCalls, args,
                 responseText, indicators>>

\* The setTimeout of line 155 fires and callGemini calls itself (line 156).
BackoffElapses ==
  /\ pc = "cg_backoff"
  /\ retryCount' = retryCount + 1
  /\ pc' = "cg_streaming"
  /\ waitTime' = 0
  /\ attempts' = Bump(attempts)
  /\ procCount' = 0
  /\ repairs' = 0
  /\ cleanups' = 0
  /\ respKinds' = NoResponses
  /\ provErr' = NoError
  /\ caught' = NoError
  /\ failCause' = "none"
  /\ Issue(sent, {}, {"stream"})
  /\ responseText' = <<>>
  /\ indicators' = StartLoadingIndicator(indicators, IndicatorOf("stream"))
  /\ UNCHANGED <<op, researchRetry, useResearch, perplexity, keyPresent, client,
                 thrown, returned, researchInsights, waits, constructions, clientCalls,
                 args, warnings>>

(* ------------------------ getPerplexityClient ------------------------- *)
\* a client built on every call
NeedsClientAlways(perp) == TRUE

\* line 31
NeedsClient(perp) == perp = 0

\* a getPerplexityClient that stores a client before it tests the credential
getPerplexityClientStoresFirst(perp, key, built) ==
  IF NeedsClient(perp)
  THEN [threw |-> ~key, perplexity |-> built + 1,
        client |-> IF key THEN built + 1 ELSE 0, built |-> TRUE]
  ELSE [threw |-> FALSE, perplexity |-> perp, client |-> perp, built |-> FALSE]

\* lines 30-41: threw tells whether the Error of line 33 is thrown; perplexity is
\* the module variable afterwards; built tells whether new OpenAI(...) ran.
getPerplexityClient(perp, key, built) ==
  IF NeedsClient(perp)
  THEN IF ~key
       THEN [threw |-> TRUE, perplexity |-> perp, client |-> 0, built |-> FALSE]
       ELSE [threw |-> FALSE, perplexity |-> built + 1, client |-> built + 1, built |-> TRUE]
  ELSE [threw |-> FALSE, perplexity |-> perp, client |-> perp, built |-> FALSE]

(* ---------------------- expandTaskWithResearch ------------------------ *)
\* the research retry test off by one
HasResearchBudgetOffByOne(count) == count <= ResearchRetries

HasResearchBudget(count) == count < ResearchRetries

ResearchWaitTime(count) == (count + 1) * BackoffUnit

\* lines 419-432: the catch block, entered with `error` while retryCount is `count`.
\* `done` is the request whose failure is caught, `sentSoFar` the requests sent
\* before and `running` the indicators left running when the catch is entered.
ResearchCatch(error, count, waitsSoFar, sentSoFar, done, running) ==
  /\ caught' = error
  /\ thrown' = <<>>
  /\ returned' = NoReturn
  /\ researchInsights' = ""
  /\ IF HasResearchBudget(count)
     THEN /\ pc' = "rs_backoff"
          /\ waitTime' = ResearchWaitTime(count)
          /\ waits' = Push(waitsSoFar, ResearchWaitTime(count))
          /\ Issue(sentSoFar, done, {})
          /\ indicators' = running
     ELSE /\ pc' = "rs_fallback"
          /\ waitTime' = 0
          /\ waits' = waitsSoFar
          /\ Issue(sentSoFar, done, {"fallback"})
          /\ indicators' = StartLoadingIndicator(running, IndicatorOf("fallback"))

\* lines 382-411: the body up to the request to Perplexity, with retryCount `count`.
EnterResearch(count, waitsSoFar, callsSoFar, sentSoFar, running) ==
  LET got == getPerplexityClient(perplexity, keyPresent, constructions)
  IN /\ perplexity' = got.perplexity
     /\ client' = got.client
     /\ constructions' = IF got.built THEN Bump(constructions) ELSE constructions
     /\ clientCalls' = Bump(callsSoFar)
     /\ researchRetry' = count
     /\ provErr' = NoError
     /\ IF got.threw
        THEN /\ ResearchCatch(NewError(<<MsgMissingKey>>), count, waitsSoFar,
                              sentSoFar, {}, running)
             /\ failCause' = "credential"
        ELSE /\ pc' = "rs_researching"
             /\ Issue(sentSoFar, {}, {"research"})
             /\ indicators' = StartLoadingIndicator(running,
                                                    Indicator("research", count))
             /\ waitTime' = 0
             /\ waits' = waitsSoFar
             /\ caught' = NoError
             /\ failCause' = "none"
             /\ thrown' = <<>>
             /\ returned' = NoReturn
             /\ researchInsights' = ""

\* where the caller of the research step goes on, and the request it sends there
PrimaryPc(o) ==
  IF o = "createSubtasksWithGemini" THEN "cs_generating" ELSE "ac_generating"

PrimaryRequest(o) ==
  IF o = "createSubtasksWithGemini" THEN "subtasks" ELSE "complexity"

\* The research step of createSubtasksWithGemini / analyzeTaskComplexity is
\* over: the locals of expandTaskWithResearch are gone and no error is on its way.
ResearchStepOver ==
  /\ researchRetry' = 0
  /\ provErr' = NoError
  /\ caught' = NoError
  /\ failCause' = "none"

\* expandTaskWithResearch returns `text` to whoever called it, the function that
\* produced the text having stopped its indicator `stopped`.
ResearchReturns(text, done, stopped) ==
  /\ thrown' = <<>>
  /\ warnings' = warnings
  /\ IF op = "expandTaskWithResearch"
     THEN /\ pc' = "Success"
          /\ returned' = ReturnText(text)
          /\ researchInsights' = researchInsights
          /\ Issue(sent, done, {})
          /\ indicators' = StopLoadingIndicator(indicators, stopped)
          /\ UNCHANGED <<researchRetry, provErr, caught, failCause>>
     ELSE /\ pc' = PrimaryPc(op)
          /\ returned' = NoReturn
          /\ researchInsights' = text
          /\ Issue(sent, done, {PrimaryRequest(op)})
          /\ indicators' = StartLoadingIndicator(
                              StopLoadingIndicator(indicators, stopped),
                              IndicatorOf(PrimaryRequest(op)))
          /\ ResearchStepOver

\* a caller that lets the error of its research step through
ResearchErrorNeverCaught(o) == FALSE

\* the try of lines 557-563 and of lines 761-767
ResearchErrorCaught(o) == o \in {"createSubtasksWithGemini", "analyzeTaskComplexity"}

\* expandTaskWithResearch throws `message` because the provider failed with
\* `error`; lines 561-563 and 765-767 catch it.
ResearchThrows(message, error, done) ==
  /\ returned' = NoReturn
  /\ researchInsights' = researchInsights
  /\ IF ResearchErrorCaught(op)
     THEN /\ pc' = PrimaryPc(op)
          /\ thrown' = <<>>
          /\ warnings' = warnings \cup {"ResearchFailed"}
          /\ Issue(sent, done, {PrimaryRequest(op)})
          /\ indicators' = StartLoadingIndicator(
                              StopLoadingIndicator(indicators, IndicatorOf("fallback")),
                              IndicatorOf(PrimaryRequest(op)))
          /\ ResearchStepOver
     ELSE /\ pc' = "Failed"
          /\ thrown' = message
          /\ warnings' = warnings
          /\ Issue(sent, done, {})
          /\ indicators' = StopLoadingIndicator(indicators, IndicatorOf("fallback"))
          /\ provErr' = error
          /\ failCause' = "transport"
          /\ UNCHANGED <<researchRetry, caught>>

researchFrame == <<op, retryCount, procCount, useResearch, keyPresent, attempts,
                   repairs, cleanups, respKinds, args, responseText>>

\* What every exported function starts from, apart from the research step.
FreshFrame ==
  /\ pc \in Terminal \cup {"idle"}
  /\ retryCount' = 0
  /\ procCount' = 0
  /\ attempts' = 0
  /\ repairs' = 0
  /\ cleanups' = 0
  /\ respKinds' = NoResponses
  /\ warnings' = {}
  /\ UNCHANGED <<keyPresent, responseText>>

\* The exported function starts without a research step, sending `request`.
NoResearch(request) ==
  /\ Issue(NoneSent, {}, {request})
  /\ indicators' = StartLoadingIndicator({}, IndicatorOf(request))
  /\ researchRetry' = 0
  /\ waitTime' = 0
  /\ thrown' = <<>>
  /\ returned' = NoReturn
  /\ researchInsights' = ""
  /\ waits' = <<>>
  /\ clientCalls' = 0
  /\ provErr' = NoError
  /\ caught' = NoError
  /\ failCause' = "none"
  /\ UNCHANGED <<perplexity, client, constructions>>

\* callGemini(prdContent, prdPath, numTasks): the first streaming request is sent.
StartCallGemini ==
  /\ pc \in Terminal \cup {"idle"}
  /\ op' = "callGemini"
  /\ pc' = "cg_streaming"
  /\ useResearch' = FALSE
  /\ retryCount' = 0
  /\ procCount' = 0
  /\ attempts' = 1
  /\ repairs' = 0
  /\ cleanups' = 0
  /\ respKinds' = NoResponses
  /\ warnings' = {}
  /\ \E numTasks \in Counts : args' = [id |-> 0, count |-> numTasks]
  /\ NoResearch("stream")
  /\ responseText' = <<>>
  /\ UNCHANGED keyPresent

\* expandTaskWithResearch(taskData, prompt) called by the CLI.
StartExpandTaskWithResearch ==
  /\ FreshFrame
  /\ op' = "expandTaskWithResearch"
  /\ useResearch' = TRUE
  /\ args' = NoArgs
  /\ EnterResearch(0, <<>>, 0, NoneSent, {})

\* perplexityClient.chat.completions.create fails (lines 406-411, 419-432).
ResearchFails ==
  /\ pc = "rs_researching"
  /\ \E e \in ProviderErrors :
       /\ provErr' = e
       /\ ResearchCatch(e, researchRetry, waits, sent, {"research"}, indicators)
  /\ failCause' = "transport"
  /\ UNCHANGED <<researchFrame, researchRetry, perplexity, client, constructions,
                 clientCalls, warnings>>

\* The research arrives; refineTaskWithGemini sends its request (lines 413-418, 471).
ResearchCompletes ==
  /\ pc = "rs_researching"
  /\ pc' = "rs_refining"
  /\ Issue(sent, {"research"}, {"refine"})
  /\ indicators' = StartLoadingIndicator(
                      StopLoadingIndicator(indicators,
                                           Indicator("research", researchRetry)),
                      IndicatorOf("refine"))
  /\ UNCHANGED <<researchFrame, researchRetry, waitTime, perplexity, client, thrown,
                 returned, researchInsights, waits, constructions, clientCalls,
                 provErr, caught, failCause, warnings>>

\* refineTaskWithGemini rethrows the provider's error (lines 481-485, 419-432).
RefineFails ==
  /\ pc = "rs_refining"
  /\ \E e \in ProviderErrors :
       /\ provErr' = e
       /\ ResearchCatch(e, researchRetry, waits, sent, {"refine"},
                        StopLoadingIndicator(indicators, IndicatorOf("refine")))
  /\ failCause' = "transport"
  /\ UNCHANGED <<researchFrame, researchRetry, perplexity, client, constructions,
                 clientCalls, warnings>>

\* refineTaskWithGemini returns the text (lines 479-480, 418).
RefineCompletes ==
  /\ pc = "rs_refining"
  /\ \E text \in MarkdownTexts : ResearchReturns(text, {"refine"}, IndicatorOf("refine"))
  /\ UNCHANGED <<researchFrame, waitTime, perplexity, client, waits,
                 constructions, clientCalls>>

\* The setTimeout of line 425 fires; expandTaskWithResearch calls itself (line 426).
ResearchBackoffElapses ==
  /\ pc = "rs_backoff"
  /\ EnterResearch(researchRetry + 1, waits, clientCalls, sent, indicators)
  /\ UNCHANGED <<researchFrame, warnings>>

\* The fallback expandTaskWithGemini fails (lines 430, 534-539).
FallbackFails ==
  /\ pc = "rs_fallback"
  /\ \E e \in ProviderErrors : ResearchThrows(handleGeminiError(e), e, {"fallback"})
  /\ UNCHANGED <<researchFrame, waitTime, perplexity, client, waits,
                 constructions, clientCalls>>

\* The fallback expandTaskWithGemini returns its text (lines 430, 532-533).
FallbackCompletes ==
  /\ pc = "rs_fallback"
  /\ \E text \in MarkdownTexts : ResearchReturns(text, {"fallback"}, IndicatorOf("fallback"))
  /\ UNCHANGED <<researchFrame, waitTime, perplexity, client, waits,
                 constructions, clientCalls>>

(* ------------- createSubtasksWithGemini, fixSubtasksJson -------------- *)
\* the indicator an exported function starts for its own request
OwnIndicator(o) ==
  IndicatorOf(IF o = "expandTaskWithGemini" THEN "expand" ELSE PrimaryRequest(o))

\* an outer catch that sends the failed request again
FailWithRetry(error, done) ==
  /\ pc' = pc
  /\ thrown' = <<>>
  /\ returned' = NoReturn
  /\ Issue(sent, done, done)
  /\ indicators' = indicators

\* The outer catch of an exported function: lines 656-661, 841-846, 534-539.
\* `done` is the request that has settled.
FailWith(error, done) ==
  /\ pc' = "Failed"
  /\ thrown' = handleGeminiError(error)
  /\ returned' = NoReturn
  /\ Issue(sent, done, {})
  /\ indicators' = StopLoadingIndicator(indicators, OwnIndicator(op))

primaryFrame == <<op, retryCount, procCount, researchRetry, useResearch, waitTime,
                  perplexity, keyPresent, client, researchInsights, attempts, repairs,
                  cleanups, respKinds, waits, constructions, clientCalls, caught, args,
                  responseText>>

\* { ...first, ...second }: the keys of second override those of first
ObjectSpread(first, second) ==
  [k \in DOMAIN first \cup DOMAIN second |->
     IF k \in DOMAIN second THEN second[k] ELSE first[k]]

\* An id "<a>.<b>" is the pair <<a, b>>, a number id n is <<n>>.
\* ids numbered from 0
SubtaskIdZeroBased(parentId, index) == <<parentId, index>>

\* lines 645 and 734: `${taskData.id}.${index + 1}`, index counted from 0
SubtaskId(parentId, index) == <<parentId, index + 1>>

\* lines 642-647 and 731-736: subtasksJson.map((subtask, index) => ...)
AssignIds(subtasksJson, parentId) ==
  [i \in 1..Len(subtasksJson) |->
     ObjectSpread(subtasksJson[i], [id |-> SubtaskId(parentId, i - 1)])]

\* what the model may send as a subtask: no id, or an id of the form asked for
\* that is not the one its position calls for
SubtaskElements ==
  { [title |-> "sent without id"],
    [id |-> <<1, 9>>, title |-> "sent as 1.9"] }

MaxArray == 2      \* longest enumerated array of subtasks

RECURSIVE ArraysUpTo(_)
ArraysUpTo(n) ==
  IF n = 0 THEN {<<>>}
  ELSE LET shorter == ArraysUpTo(n - 1)
       IN shorter \cup { Append(a, e) : a \in {u \in shorter : Len(u) = n - 1},
                                         e \in SubtaskElements }

\* A subtask response is a sequence of tokens: Fence is a line of three
\* backquotes with or without the tag json, "[" and "]" are brackets, a token of
\* ObjectTokens is the text "{...}" of one element of SubtaskElements, "x" is
\* prose. White space is left out: the patterns skip it wherever it may stand.
Fence == "fence"

ObjectTokens == {"a", "b"}

\* JSON.stringify of an element, and JSON.parse of its text
ObjectText(element) == IF "id" \in DOMAIN element THEN "b" ELSE "a"

ObjectOf(token) == CHOOSE element \in SubtaskElements : ObjectText(element) = token

ArrayText(array) ==
  <<"[">> \o [i \in 1..Len(array) |-> ObjectText(array[i])] \o <<"]">>

Fenced(text) == <<Fence>> \o text \o <<Fence>>

NoMatch == [found |-> FALSE, group |-> <<>>]

SetMin(S) == CHOOSE x \in S : \A y \in S : x <= y

SetMax(S) == CHOOSE x \in S : \A y \in S : y <= x

\* lines 626-627 and 719-720: `.*` is greedy and, under the flag s, runs over
\* line ends, so the group closes at the last place the rest of the pattern fits
GroupEnd(ends) == SetMax(ends)

\* lines 626 and 719: response.match(/```(?:json)?\s*(\[\s*\{.*\}\s*\])\s*```/s);
\* the match starts at the leftmost fence from which the pattern can be completed
FencedMatch(response) ==
  LET n == Len(response)
      Ends(i) == { k \in (i + 2)..(n - 2) :
                     /\ response[k] \in ObjectTokens
                     /\ response[k + 1] = "]"
                     /\ response[k + 2] = Fence }
      starts == { i \in 1..(n - 2) :
                    /\ response[i] = Fence
                    /\ response[i + 1] = "["
                    /\ response[i + 2] \in ObjectTokens
                    /\ Ends(i) # {} }
  IN IF starts = {} THEN NoMatch
     ELSE LET i == SetMin(starts)
          IN [found |-> TRUE, group |-> SubSeq(response, i + 1, GroupEnd(Ends(i)) + 1)]

\* lines 627 and 720: response.match(/(\[\s*\{.*\}\s*\])/s)
BareMatch(response) ==
  LET n == Len(response)
      Ends(i) == { k \in (i + 1)..(n - 1) :
                     /\ response[k] \in ObjectTokens
                     /\ response[k + 1] = "]" }
      starts == { i \in 1..(n - 1) :
                    /\ response[i] = "["
                    /\ response[i + 1] \in ObjectTokens
                    /\ Ends(i) # {} }
  IN IF starts = {} THEN NoMatch
     ELSE LET i == SetMin(starts)
          IN [found |-> TRUE, group |-> SubSeq(response, i, GroupEnd(Ends(i)) + 1)]

\* lines 626-629 and 719-722: jsonMatch ? jsonMatch[1] : response
ExtractSubtasksJson(response) ==
  LET fenced == FencedMatch(response)
      bare == BareMatch(response)
  IN IF fenced.found THEN fenced.group
     ELSE IF bare.found THEN bare.group
     ELSE response

\* lines 630-635 and 723-728: JSON.parse(jsonText) and Array.isArray; the text
\* of one object parses to a value that is no array
ParsedSubtasks(jsonText) ==
  LET n == Len(jsonText)
  IN IF /\ n >= 2
        /\ jsonText[1] = "["
        /\ jsonText[n] = "]"
        /\ \A i \in 2..(n - 1) : jsonText[i] \in ObjectTokens
     THEN [kind |-> "array", items |-> [i \in 1..(n - 2) |-> ObjectOf(jsonText[i + 1])]]
     ELSE IF n = 1 /\ jsonText[1] \in ObjectTokens
     THEN [kind |-> "object", items |-> <<>>]
     ELSE [kind |-> "invalid", items |-> <<>>]

\* result.response.text() of lines 623 and 716: every array up to MaxArray
\* elements on its own, in a fence, in a fence within prose and in prose, and
\* responses with more than one array, with one object and with no JSON
SubtaskResponses ==
  LET arrays == { ArrayText(a) : a \in ArraysUpTo(MaxArray) }
  IN arrays
     \cup { Fenced(t) : t \in arrays }
     \cup { <<"x">> \o Fenced(t) \o <<"x">> : t \in arrays }
     \cup { <<"x">> \o t \o <<"x">> : t \in arrays }
     \cup { <<"[", "a", "]", "x">> \o Fenced(<<"[", "b", "]">>),
            Fenced(<<"[", "a", "]">>) \o <<"x">> \o Fenced(<<"[", "b", "]">>),
            Fenced(<<"[", "a", "]">>) \o <<"x", "[", "b", "]">>,
            <<"a">>, <<"x">>, <<"[", "a">>, <<>> }

ReturnArray(items) == [kind |-> "array", items |-> items]

\* research asked for whatever the argument
WantsResearchAlways(u) == TRUE

\* lines 556 and 760: if (useResearch)
WantsResearch(u) == u

\* lines 579 and 782: ${researchInsights ? `RESEARCH: ${researchInsights}` : ''}
HasResearchSection(insights) == insights # ""

\* createSubtasksWithGemini(taskData, numSubtasks, prompt, useResearch)
StartCreateSubtasks ==
  /\ FreshFrame
  /\ op' = "createSubtasksWithGemini"
  /\ args' \in SubtaskCalls
  /\ \E u \in BOOLEAN :
       /\ useResearch' = u
       /\ IF WantsResearch(u) THEN EnterResearch(0, <<>>, 0, NoneSent, {})
          ELSE /\ pc' = "cs_generating"
               /\ NoResearch("subtasks")

\* model.generateContent of line 610 fails (lines 656-661).
SubtasksRequestFails ==
  /\ pc = "cs_generating"
  /\ \E e \in ProviderErrors :
       /\ provErr' = e
       /\ FailWith(e, {"subtasks"})
  /\ failCause' = "transport"
  /\ UNCHANGED <<primaryFrame, warnings>>

\* The response of line 610 arrives (lines 618-655): an array is returned with
\* its ids assigned, anything else goes to fixSubtasksJson, which sends its
\* request (line 706).
SubtasksRequestCompletes ==
  /\ pc = "cs_generating"
  /\ \E response \in SubtaskResponses :
       LET parsed == ParsedSubtasks(ExtractSubtasksJson(response))
           subtasksJson == parsed.items
       IN
       IF parsed.kind = "array"
       THEN /\ pc' = "Success"
            /\ warnings' = IF Len(subtasksJson) # args.count
                           THEN warnings \cup {"SubtaskCount"} ELSE warnings
            /\ returned' = ReturnArray(AssignIds(subtasksJson, args.id))
            /\ Issue(sent, {"subtasks"}, {})
       ELSE /\ pc' = "cs_fixing"
            /\ warnings' = warnings
            /\ returned' = NoReturn
            /\ Issue(sent, {"subtasks"}, {"fix"})
  /\ indicators' = StopLoadingIndicator(indicators, IndicatorOf("subtasks"))
  /\ UNCHANGED <<primaryFrame, thrown, provErr, failCause>>

\* fixSubtasksJson's request fails (lines 741-745, then 656-661).
FixRequestFails ==
  /\ pc = "cs_fixing"
  /\ \E e \in ProviderErrors :
       /\ provErr' = e
       /\ FailWith(NewError(handleGeminiError(e)), {"fix"})
  /\ failCause' = "transport"
  /\ UNCHANGED <<primaryFrame, warnings>>

\* fixSubtasksJson's response arrives (lines 715-745, then 656-661).
FixRequestCompletes ==
  /\ pc = "cs_fixing"
  /\ \E response \in SubtaskResponses :
       LET parsed == ParsedSubtasks(ExtractSubtasksJson(response))
           subtasksJson == parsed.items
       IN
       IF parsed.kind = "array"
       THEN /\ pc' = "Success"
            /\ returned' = ReturnArray(AssignIds(subtasksJson, args.id))
            /\ Issue(sent, {"fix"}, {})
            /\ UNCHANGED <<thrown, failCause, indicators>>
       ELSE /\ FailWith(NewError(handleGeminiError(NewError(<<MsgFixSubtasks>>))), {"fix"})
            /\ failCause' = "processing"
  /\ provErr' = NoError
  /\ UNCHANGED <<primaryFrame, warnings>>

(* ------------------------ analyzeTaskComplexity ----------------------- *)
\* what the model may send as its analysis: without and with a taskId of its own
ComplexityObjects == {[complexityScore |-> 5], [taskId |-> 9, complexityScore |-> 5]}

\* what JSON.parse returns for a complexity response of kind `json`, as the
\* spread of line 835 sees it: an array [5] has the one own key "0"
ParsedComplexity(json) ==
  CASE json = "object" -> ComplexityObjects
    [] json = "array" -> {[k \in {"0"} |-> 5]}
    [] OTHER -> {[complexityScore |-> 0]}

\* lines 833-836: { taskId: taskData.id, ...complexityData }
ComplexityReport(taskId, complexityData) ==
  ObjectSpread([taskId |-> taskId], complexityData)

ReturnObject(report) == [kind |-> "object", report |-> report]

\* analyzeTaskComplexity(taskData, useResearch)
StartAnalyzeTaskComplexity ==
  /\ FreshFrame
  /\ op' = "analyzeTaskComplexity"
  /\ \E id \in TaskIds : args' = [id |-> id, count |-> 0]
  /\ \E u \in BOOLEAN :
       /\ useResearch' = u
       /\ IF WantsResearch(u) THEN EnterResearch(0, <<>>, 0, NoneSent, {})
          ELSE /\ pc' = "ac_generating"
               /\ NoResearch("complexity")

\* model.generateContent of line 812 fails (lines 841-846).
ComplexityRequestFails ==
  /\ pc = "ac_generating"
  /\ \E e \in ProviderErrors :
       /\ provErr' = e
       /\ FailWith(e, {"complexity"})
  /\ failCause' = "transport"
  /\ UNCHANGED <<primaryFrame, warnings>>

\* The response of line 812 arrives (lines 820-846): whatever JSON.parse accepts
\* is returned under the task's id, a parse failure is thrown on through the
\* outer catch.
ComplexityRequestCompletes ==
  /\ pc = "ac_generating"
  /\ \E json \in JsonKinds : \E complexityData \in ParsedComplexity(json) :
       IF json # "invalid"
       THEN /\ pc' = "Success"
            /\ returned' = ReturnObject(ComplexityReport(args.id, complexityData))
            /\ Issue(sent, {"complexity"}, {})
            /\ indicators' = StopLoadingIndicator(indicators, IndicatorOf("complexity"))
            /\ UNCHANGED <<thrown, failCause>>
       ELSE /\ FailWith(NewError(<<MsgComplexityParse>>), {"complexity"})
            /\ failCause' = "processing"
  /\ provErr' = NoError
  /\ UNCHANGED <<primaryFrame, warnings>>

(* ------------------------- expandTaskWithGemini ----------------------- *)
\* expandTaskWithGemini(taskData, prompt) called by the CLI.
StartExpandTaskWithGemini ==
  /\ FreshFrame
  /\ op' = "expandTaskWithGemini"
  /\ useResearch' = FALSE
  /\ args' = NoArgs
  /\ pc' = "eg_expanding"
  /\ NoResearch("expand")

\* model.generateContent of line 524 fails (lines 534-539).
ExpandRequestFails ==
  /\ pc = "eg_expanding"
  /\ \E e \in ProviderErrors :
       /\ provErr' = e
       /\ FailWith(e, {"expand"})
  /\ failCause' = "transport"
  /\ UNCHANGED <<primaryFrame, warnings>>

\* The response of line 524 arrives (lines 532-533).
ExpandRequestCompletes ==
  /\ pc = "eg_expanding"
  /\ pc' = "Success"
  /\ \E text \in MarkdownTexts : returned' = ReturnText(text)
  /\ Issue(sent, {"expand"}, {})
  /\ indicators' = StopLoadingIndicator(indicators, IndicatorOf("expand"))
  /\ UNCHANGED <<primaryFrame, thrown, provErr, failCause, warnings>>

\* process.env.PERPLEXITY_API_KEY is set or deleted between two steps.
EnvChanges ==
  /\ keyPresent' = ~keyPresent
  /\ UNCHANGED <<op, pc, retryCount, procCount, researchRetry, useResearch, waitTime,
                 perplexity, client, thrown, returned, researchInsights, attempts,
                 repairs, cleanups, respKinds, waits, constructions, clientCalls,
                 provErr, caught, failCause, args, outstanding, sent, warnings,
                 responseText, indicators, requests>>

Next ==
  \/ StartCallGemini
  \/ ChunkArrives
  \/ StreamFails
  \/ StreamCompletes
  \/ RepairFails
  \/ RepairCompletes
  \/ BackoffElapses
  \/ StartExpandTaskWithResearch
  \/ ResearchFails
  \/ ResearchCompletes
  \/ RefineFails
  \/ RefineCompletes
  \/ ResearchBackoffElapses
  \/ FallbackFails
  \/ FallbackCompletes
  \/ StartCreateSubtasks
  \/ SubtasksRequestFails
  \/ SubtasksRequestCompletes
  \/ FixRequestFails
  \/ FixRequestCompletes
  \/ StartAnalyzeTaskComplexity
  \/ ComplexityRequestFails
  \/ ComplexityRequestCompletes
  \/ StartExpandTaskWithGemini
  \/ ExpandRequestFails
  \/ ExpandRequestCompletes
  \/ EnvChanges

Spec == Init /\ [][Next]_vars

\* Every provider request and every setTimeout eventually completes.
Progress ==
  \/ StreamFails \/ StreamCompletes \/ RepairFails \/ RepairCompletes \/ BackoffElapses
  \/ ResearchFails \/ ResearchCompletes \/ RefineFails \/ RefineCompletes
  \/ ResearchBackoffElapses \/ FallbackFails \/ FallbackCompletes
  \/ SubtasksRequestFails \/ SubtasksRequestCompletes \/ FixRequestFails
  \/ FixRequestCompletes \/ ComplexityRequestFails \/ ComplexityRequestCompletes
  \/ ExpandRequestFails \/ ExpandRequestCompletes

FairSpec == Spec /\ WF_vars(Progress)

(* ------------------------ parseSubtasksFromText ----------------------- *)
\* The free-standing subtask parser: a pure function of its four arguments.
\* A dependency value as JSON.parse gives it: a number, a string, or null.
Num(n) == [type |-> "number", value |-> n, text |-> <<>>]

Str(chars) == [type |-> "string", value |-> 0, text |-> chars]

Null == [type |-> "null", value |-> 0, text |-> <<>>]

Digits == {"0", "1", "2"}

DigitValue(c) == CASE c = "1" -> 1 [] c = "2" -> 2 [] OTHER -> 0

\* the integer a string of decimal digits denotes
RECURSIVE ParseDigits(_)
ParseDigits(chars) ==
  IF chars = <<>> THEN 0
  ELSE 10 * ParseDigits(SubSeq(chars, 1, Len(chars) - 1)) + DigitValue(chars[Len(chars)])

\* every entry is kept
CoercibleAlways(dep) == TRUE

\* a number, or a string that denotes one, can be coerced to a finite integer
Coercible(dep) ==
  \/ dep.type = "number"
  \/ /\ dep.type = "string"
     /\ dep.text # <<>>
     /\ \A i \in 1..Len(dep.text) : dep.text[i] \in Digits

ToInteger(dep) == IF dep.type = "number" THEN dep.value ELSE ParseDigits(dep.text)

\* numeric strings become integers, integers are kept, the rest is dropped
RECURSIVE CoerceDependencies(_)
CoerceDependencies(deps) ==
  IF deps = <<>> THEN <<>>
  ELSE LET rest == CoerceDependencies(Tail(deps))
       IN IF Coercible(Head(deps)) THEN <<ToInteger(Head(deps))>> \o rest ELSE rest

\* In a text handed to the parser "p", "q" and "r" are the texts of these
\* objects, "[" and "]" are brackets and "x" is prose.
ParserTokens == {"p", "q", "r"}

ParserObject(token) ==
  CASE token = "p" -> [id |-> 10, title |-> "First", dependencies |-> <<>>]
    [] token = "q" -> [id |-> 20, title |-> "Second",
                       dependencies |-> <<Str(<<"1">>), Num(2)>>]
    [] OTHER -> [title |-> "Third",
                 dependencies |-> <<Str(<<"x">>), Num(1), Null, Str(<<"1", "2">>), Str(<<>>)>>]

RECURSIVE ParserArraysUpTo(_)
ParserArraysUpTo(n) ==
  IF n = 0 THEN {<<>>}
  ELSE LET shorter == ParserArraysUpTo(n - 1)
       IN shorter \cup { Append(a, t) : a \in {u \in shorter : Len(u) = n - 1},
                                         t \in ParserTokens }

ParserTexts ==
  LET arrays == { <<"[">> \o a \o <<"]">> : a \in ParserArraysUpTo(MaxArray) }
  IN arrays
     \cup { <<"x">> \o t \o <<"x">> : t \in arrays }
     \cup { <<>>, <<"x">>, <<"p">>, <<"[", "p">>, <<"]", "p", "[">>,
            <<"[", "p", "]", "x", "[", "q", "]">>, <<"[", "x", "]">> }

\* step 1: the widest substring from the first "[" to the last "]"
LocateArray(text) ==
  LET first == IndexOf(text, "[")
      last == LastIndexOf(text, "]")
  IN IF first = -1 \/ last = -1 \/ last < first
     THEN [found |-> FALSE, text |-> <<>>]
     ELSE [found |-> TRUE, text |-> SubSeq(text, first + 1, last + 1)]

\* JSON.parse of the located text: an array of objects, or a failure
ParseArray(jsonText) ==
  LET n == Len(jsonText)
  IN IF /\ n >= 2
        /\ jsonText[1] = "["
        /\ jsonText[n] = "]"
        /\ \A i \in 2..(n - 1) : jsonText[i] \in ParserTokens
     THEN [ok |-> TRUE, items |-> [i \in 1..(n - 2) |-> ParserObject(jsonText[i + 1])]]
     ELSE [ok |-> FALSE, items |-> <<>>]

\* ids numbered from the start id plus one
RenumberedFromNext(startId, index) == startId + index + 1

\* the id of the element at `index` (from 0): startId + index
Renumbered(startId, index) == startId + index

\* as many placeholders as elements were asked for, plus one
PlaceholderCountPlusOne(numSubtasks) == numSubtasks + 1

\* exactly numSubtasks placeholders
PlaceholderCount(numSubtasks) == numSubtasks

\* step 2: the placeholders
FallbackSubtasks(startId, numSubtasks, parentTaskId) ==
  [i \in 1..PlaceholderCount(numSubtasks) |->
     [id |-> Renumbered(startId, i - 1),
      title |-> <<"Subtask ", i>>,
      description |-> "Auto-generated fallback subtask",
      status |-> "pending",
      dependencies |-> <<>>,
      parentTaskId |-> parentTaskId]]

\* step 3: the parsed elements renumbered, with their parent and their
\* dependencies coerced
NormalizeSubtasks(items, startId, parentTaskId) ==
  [i \in 1..Len(items) |->
     ObjectSpread(items[i],
                  [id |-> Renumbered(startId, i - 1),
                   parentTaskId |-> parentTaskId,
                   dependencies |-> CoerceDependencies(items[i].dependencies)])]

parseSubtasksFromText(text, startId, numSubtasks, parentTaskId) ==
  LET located == LocateArray(text)
      parsed == ParseArray(located.text)
  IN IF located.found /\ parsed.ok
     THEN NormalizeSubtasks(parsed.items, startId, parentTaskId)
     ELSE FallbackSubtasks(startId, numSubtasks, parentTaskId)

StartIds == {1, 3}

ParserCalls ==
  { [id |-> parent, count |-> n, startId |-> start, text |-> text] :
      parent \in {5, 7}, n \in Counts, start \in StartIds, text \in ParserTexts }

\* parseSubtasksFromText(text, startId, numSubtasks, parentTaskId): called and
\* returned in one step, it reads and writes no state of the module.
ParseSubtasksFromText ==
  /\ pc \in Terminal \cup {"idle"}
  /\ op' = "parseSubtasksFromText"
  /\ pc' = "Success"
  /\ \E call \in ParserCalls :
       /\ args' = call
       /\ returned' = ReturnArray(parseSubtasksFromText(call.text, call.startId,
                                                         call.count, call.id))
  /\ thrown' = <<>>
  /\ UNCHANGED <<retryCount, procCount, researchRetry, useResearch, waitTime,
                 perplexity, keyPresent, client, researchInsights, attempts,
                 repairs, cleanups, respKinds, waits, constructions, clientCalls,
                 provErr, caught, failCause, outstanding, sent, warnings,
                 responseText, indicators, requests>>

ParserNext == ParseSubtasksFromText

\* the parser called over and over on texts and arguments of every kind
ParserSpec == Init /\ [][ParserNext]_vars

(* ------------------------------ claims -------------------------------- *)
InCallGemini == op = "callGemini"

\* the message has one of the four retry terms in it
MentionsRetryTerm(message) ==
  \E i \in 1..Len(message) : TermsIn(message[i]) \cap Terms # {}

\* the streaming request of the current attempt failed with provErr
StreamRequestFailed == InCallGemini /\ provErr # NoError /\ repairs = 0

\* C1: one invocation of callGemini starts at most 3 streaming requests, and when
\* the third attempt has failed the run is in Failed.
C1_AtMostThreeAttempts ==
  InCallGemini =>
    /\ attempts <= MaxRetries + 1
    /\ attempts = retryCount + 1
    /\ (attempts = MaxRetries + 1 /\ caught # NoError => pc = "Failed" /\ waitTime = 0)

C1_Witness ==
  InCallGemini /\ attempts = 3 /\ pc = "Failed" /\ MentionsRetryTerm(caught.message)

\* C2: a failure of the streaming request whose message has one of the four terms
\* leads to a new attempt (through the backoff) whenever fewer than 2 retries are used.
C2_RetryableKindsRetried ==
  (StreamRequestFailed /\ MentionsRetryTerm(provErr.message) /\ retryCount < MaxRetries)
    => pc = "cg_backoff"

\* C3: a failure whose message has none of the four terms is surfaced at once:
\* Failed, no wait pending, the user message thrown; this covers the error
\* callGemini catches, a plain provider error and every processing failure.
C3_NonRetryableSurfaced ==
  InCallGemini =>
    /\ (caught # NoError /\ ~MentionsRetryTerm(caught.message)
          => pc = "Failed" /\ waitTime = 0 /\ thrown = handleGeminiError(caught))
    /\ (provErr.type = Undefined /\ ~MentionsRetryTerm(provErr.message)
          => pc = "Failed" /\ waitTime = 0)
    /\ (failCause = "processing" => pc = "Failed" /\ waitTime = 0)

C3_Witness ==
  /\ InCallGemini /\ pc = "Failed" /\ retryCount = 0 /\ waits = <<>>
  /\ provErr = NewError(<<"Something unexpected happened">>)

\* C4: the waits of one invocation are 5000 ms then 10000 ms, one before each new
\* attempt, and attempt k+1 starts only when its wait of (k+1) x 5000 ms is over.
C4_BackoffSchedule ==
  InCallGemini =>
    /\ waits = SubSeq(<<5000, 10000>>, 1, Len(waits))
    /\ Len(waits) = (IF pc = "cg_backoff" THEN attempts ELSE attempts - 1)
    /\ (pc = "cg_backoff" => waitTime = (retryCount + 1) * 5000)
    /\ (pc # "cg_backoff" => waitTime = 0)

C4_Witness ==
  InCallGemini /\ pc = "cg_streaming" /\ retryCount = 2 /\ waits = <<5000, 10000>>

\* C5: every run that has started reaches Success or Failed, given that requests
\* and waits complete.
C5_Terminates == (pc \notin Terminal \cup {"idle"}) ~> (pc \in Terminal)

C5_Witness ==
  InCallGemini /\ pc = "Failed" /\ failCause = "processing" /\ repairs = 2 /\ attempts = 1

\* C6: for one streamed response at most 2 repair requests are issued, each repair
\* response is processed, and a processing failure is thrown only once the repair
\* count has reached 2, with no request outstanding.
C6_AtMostTwoRepairs ==
  InCallGemini =>
    /\ repairs <= RepairBudget
    /\ (pc = "cg_repairing" => procCount \in 1..RepairBudget /\ repairs <= procCount)
    /\ respKinds.failed <= repairs + 1
    /\ (failCause = "processing" =>
          pc = "Failed" /\ procCount = RepairBudget /\ respKinds.failed = repairs + 1)

C6_Witness ==
  InCallGemini /\ pc = "Failed" /\ failCause = "processing" /\ repairs = 2
    /\ respKinds.failed = 3

\* C7: a repair request that follows a NoJsonFound or MalformedJson failure of the
\* streamed response is issued only after the 3 cleanup attempts were made.
C7_CleanupBeforeRepair ==
  (InCallGemini /\ pc = "cg_repairing" /\ repairs = 1
     /\ respKinds.last \in {"NoJsonFound", "MalformedJson"})
    => cleanups = CleanupBudget

\* C8: when the streamed response is still malformed after its 3 cleanup attempts
\* and every repair response is malformed too, Failed is reached only after 2
\* repair requests.
C8_SeparateBudgets ==
  (InCallGemini /\ pc = "Failed" /\ failCause = "processing"
     /\ respKinds.failed >= 1 /\ respKinds.stuck)
    => repairs = RepairBudget

\* C9: after the missing-credential error expandTaskWithResearch neither waits
\* nor asks for the client again.
C9_MissingCredentialNotRetried ==
  caught = NewError(<<MsgMissingKey>>) => pc # "rs_backoff" /\ clientCalls <= 1

\* C10: the Perplexity client is constructed at most once, the stored client is
\* never replaced or reset, and every call that returns gives the stored client.
C10_SingleClient ==
  /\ perplexity \in {0, 1}
  /\ constructions = perplexity
  /\ client \in {0, perplexity}

C10_Witness ==
  perplexity = 1 /\ client = 1 /\ clientCalls = 3 /\ ~keyPresent /\ pc = "rs_researching"

(* ------------------------- claims C11 to C20 -------------------------- *)
NoResearchOp == op # "none" /\ ~useResearch

ResearchOp == op \in {"createSubtasksWithGemini", "analyzeTaskComplexity"} /\ useResearch

PrimaryOf(o) == IF o = "createSubtasksWithGemini" THEN "subtasks" ELSE "complexity"

MentionsMissingKey(message) == \E i \in 1..Len(message) : message[i] = MsgMissingKey

\* C11: a run without research never calls getPerplexityClient, never sends a
\* research request, never has the missing-credential error on its way or in what
\* it throws, and leaves the stored client and the number of clients built as
\* they were, whether or not the credential is there.
C11_NoClientWithoutResearch ==
  /\ [](NoResearchOp =>
          /\ clientCalls = 0
          /\ sent["research"] = 0
          /\ failCause # "credential"
          /\ ~MentionsMissingKey(thrown))
  /\ [][NoResearchOp' =>
          perplexity' = perplexity /\ client' = client /\ constructions' = constructions]_vars

C11_Witness ==
  /\ op \in {"createSubtasksWithGemini", "analyzeTaskComplexity"}
  /\ ~useResearch /\ ~keyPresent /\ perplexity = 0 /\ pc = "Success"

\* C12: in createSubtasksWithGemini and analyzeTaskComplexity with research, no
\* failure of the research step ends the run: the step is always followed by the
\* primary request, alone outstanding, and a run that ends has sent exactly one
\* primary request; when it ends in Failed the failure is that of the primary path.
C12_ResearchNeverFatal ==
  /\ [](ResearchOp =>
          /\ (pc \in Terminal => sent[PrimaryOf(op)] = 1)
          /\ (pc = "Failed" => failCause \in {"transport", "processing"}
                                /\ ~MentionsMissingKey(thrown))
          /\ ("ResearchFailed" \in warnings => sent[PrimaryOf(op)] = 1))
  /\ [][(ResearchOp /\ pc \in {"rs_refining", "rs_fallback"} /\ pc' \notin {pc, "rs_backoff", "rs_fallback"})
          => /\ pc' \in {"cs_generating", "ac_generating"}
             /\ outstanding' = {PrimaryOf(op)}]_vars

C12_Witness ==
  /\ ResearchOp /\ pc = "Success" /\ "ResearchFailed" \in warnings
  /\ clientCalls = 3 /\ sent["research"] = 0

\* C13: when every attempt of the research step failed before or at the secondary
\* provider's request, the primary prompt has no RESEARCH section.
C13_NoResearchSectionAfterFailure ==
  (ResearchOp /\ pc \in {"cs_generating", "ac_generating"}
     /\ sent["fallback"] = 1 /\ sent["refine"] = 0)
    => ~HasResearchSection(researchInsights)

\* C14: at most one provider request is outstanding, and none during a backoff
\* wait or once the run has ended.
C14_OneOutstandingRequest ==
  /\ Cardinality(outstanding) <= 1
  /\ (pc \in {"cg_backoff", "rs_backoff"} \cup Terminal \cup {"idle"} => outstanding = {})
  /\ (pc \notin {"cg_backoff", "rs_backoff"} \cup Terminal \cup {"idle"}
        => Cardinality(outstanding) = 1)

C14_Witness ==
  /\ outstanding = {"fix"} /\ sent["research"] = 3 /\ sent["refine"] = 2
  /\ sent["fallback"] = 1 /\ sent["subtasks"] = 1

\* C15: the j-th element (j from 1) of the array createSubtasksWithGemini returns
\* has the id "<taskData.id>.<j>", whether the array came from the first response
\* or from fixSubtasksJson and whatever id the model sent.
C15_IdsByPosition ==
  (op = "createSubtasksWithGemini" /\ pc = "Success") =>
    \A j \in 1..Len(returned.items) : returned.items[j].id = <<args.id, j>>

C15_Witness ==
  /\ op = "createSubtasksWithGemini" /\ pc = "Success" /\ sent["fix"] = 1
  /\ args.id = 2 /\ Len(returned.items) = 2
  /\ returned.items[1].title = "sent as 1.9"
  /\ returned.items[2].title = "sent without id"

\* C16: every subtask createSubtasksWithGemini returns has an id "<taskData.id>.<n>"
\* with n between 1 and numSubtasks.
C16_IdsWithinRequestedRange ==
  (op = "createSubtasksWithGemini" /\ pc = "Success") =>
    \A j \in 1..Len(returned.items) :
      /\ Len(returned.items[j].id) = 2
      /\ returned.items[j].id[1] = args.id
      /\ returned.items[j].id[2] \in 1..args.count

\* C17: the report analyzeTaskComplexity returns has the caller's taskData.id as
\* its taskId.
C17_ReportCarriesCallerTaskId ==
  (op = "analyzeTaskComplexity" /\ pc = "Success") => returned.report.taskId = args.id

\* C18: callGemini succeeds only with a value that has both a tasks array and a
\* metadata object.
C18_MetadataRequired ==
  (InCallGemini /\ pc = "Success") =>
    returned.json.tasks = "array" /\ returned.json.metadata = "object"

\* the JSON candidate of lines 243-250, "none" when there is no brace to start
\* or to end it
Candidate(text) ==
  IF IndexOf(text, "{") = -1 \/ LastIndexOf(text, "}") = -1 THEN <<"none">>
  ELSE Substring(text, IndexOf(text, "{"), LastIndexOf(text, "}") + 1)

\* C19: a response whose tasks array has another length than numTasks is returned
\* as parsed: no cleanup attempt, no repair request for it, the length it was
\* parsed with, and the warning logged exactly when the length differs.  The
\* first two conjuncts are about the run, the last about processGeminiResponse
\* for every text and count (it does not depend on the state and is evaluated
\* in the initial state).
C19_LengthMismatchAccepted ==
  /\ (InCallGemini /\ pc = "Success") =>
        /\ cleanups = 0
        /\ respKinds.failed = repairs
        /\ returned.json.length \in {1, 2}
        /\ ("TaskCount" \in warnings <=> returned.json.length # args.count)
  /\ (InCallGemini /\ "TaskCount" \in warnings) => pc = "Success"
  /\ pc = "idle" =>
        \A text \in Texts : \A numTasks \in Counts : \A count \in 0..RepairBudget :
          LET parsed == JsonParse(Candidate(text))
              out == processGeminiResponse(text, numTasks, count)
          IN (parsed.ok /\ parsed.tasks = "array") =>
               /\ out.kind = "return"
               /\ out.value = parsed
               /\ out.cleanups = 0
               /\ out.warned = (parsed.length # numTasks)

C19_Witness ==
  /\ InCallGemini /\ pc = "Success" /\ args.count = 1 /\ returned.json.length = 2
  /\ "TaskCount" \in warnings /\ repairs = 1

\* C20: a text with no "{" followed later by a "}" fails with NoJsonFound.
C20_NoPairIsNoJsonFound ==
  (InCallGemini /\ respKinds.failed >= 1 /\ ~respKinds.paired)
    => respKinds.last = "NoJsonFound"

(* ============================ Claims C21-C30 ========================== *)
\* The fenced blocks of a response that wrap a valid array: a block runs from
\* an opening fence (an even number of fences stand before it) to the next fence.
FencedArrays(response) ==
  LET fences == { i \in 1..Len(response) : response[i] = Fence }
  IN { b \in fences \X fences :
         /\ b[1] < b[2]
         /\ \A f \in fences : ~(b[1] < f /\ f < b[2])
         /\ Cardinality({ f \in fences : f < b[1] }) % 2 = 0
         /\ ParsedSubtasks(SubSeq(response, b[1] + 1, b[2] - 1)).kind = "array" }

FirstFencedArray(response) ==
  LET b == CHOOSE c \in FencedArrays(response) :
             \A d \in FencedArrays(response) : c[1] <= d[1]
  IN SubSeq(response, b[1] + 1, b[2] - 1)

\* C21: whenever createSubtasksWithGemini or fixSubtasksJson awaits its response,
\* a response that holds a fenced block wrapping a valid array has the content
\* of that block (the first such block) handed to JSON.parse, whatever other
\* brackets stand in the prose around it or in a later fenced block.
C21_FencedBlockPreferred ==
  pc \in {"cs_generating", "cs_fixing"} =>
    \A response \in SubtaskResponses :
      FencedArrays(response) # {} =>
        ExtractSubtasksJson(response) = FirstFencedArray(response)

\* the call sites that parse model output themselves
ParsingOps == {"callGemini", "createSubtasksWithGemini", "analyzeTaskComplexity"}

\* C22: PRD generation, subtask creation and complexity analysis end in Failed
\* over the content of a response (no JSON found, JSON.parse failing, a wrong
\* shape) only after at least one repair request was sent to the model: none
\* of them fails on the first unparseable response.
C22_FailsOnlyAfterRepairs ==
  (op \in ParsingOps /\ pc = "Failed" /\ failCause = "processing") =>
    sent["repair"] + sent["fix"] >= 1

\* C23: an operation that ends in Failed over a provider error throws exactly
\* what handleGeminiError makes of that provider error, not that text formatted
\* once more by an outer catch; and an operation that ends in Failed over the
\* content of a response does not throw a communication error.
C23_FormattedOnce ==
  /\ (pc = "Failed" /\ failCause = "transport" /\ provErr # NoError) =>
       thrown = handleGeminiError(provErr)
  /\ (pc = "Failed" /\ failCause = "processing") =>
       (thrown # <<>> /\ thrown[1] # PfxCommunicating)

\* the fragments of the provider's own message: error.message of an Error,
\* error.error.message of a structured error
RawFragments(error) ==
  ({ error.message[i] : i \in 1..Len(error.message) }
     \cup { error.emessage[i] : i \in 1..Len(error.emessage) }) \ {Undefined}

\* C24: with CONFIG.debug unset (the branches of lines 159-161 and 223-225 are
\* not taken, as throughout this model) the error thrown to the caller carries
\* no part of the raw message of the provider error that made the operation fail.
C24_NoRawDetail ==
  (pc = "Failed" /\ provErr # NoError) =>
    \A i \in 1..Len(thrown) : thrown[i] \notin RawFragments(provErr)

ParserReturned == op = "parseSubtasksFromText" /\ pc = "Success"

\* the text holds a well-formed array of exactly n objects
HoldsArrayOf(text, n) ==
  \E i \in 1..Len(text) :
    /\ i + n + 1 <= Len(text)
    /\ text[i] = "["
    /\ text[i + n + 1] = "]"
    /\ \A k \in 1..n : text[i + k] \in ParserTokens

\* C25: called on a text that holds a well-formed array of N objects with
\* (startId, N, parentId), parseSubtasksFromText returns N elements whose ids
\* are startId, startId + 1, ... in order, whatever ids the text gave them, each
\* with parentTaskId equal to parentId.
C25_ParsedIdsFromStart ==
  (ParserReturned /\ HoldsArrayOf(args.text, args.count)) =>
    /\ returned.kind = "array"
    /\ Len(returned.items) = args.count
    /\ \A i \in 1..Len(returned.items) :
         /\ returned.items[i].id = args.startId + i - 1
         /\ returned.items[i].parentTaskId = args.id

C25_Witness ==
  /\ ParserReturned
  /\ args.text = <<"x", "[", "q", "p", "]", "x">>
  /\ args.count = 2 /\ args.startId = 3 /\ args.id = 7
  /\ returned.items[1].title = "Second" /\ returned.items[1].id = 3
  /\ returned.items[2].title = "First" /\ returned.items[2].id = 4

\* the span from the first "[" to the last "]" of the text is an array of objects
ParsesAsArray(text) ==
  \E i, j \in 1..Len(text) :
    /\ i < j
    /\ text[i] = "[" /\ \A k \in 1..(i - 1) : text[k] # "["
    /\ text[j] = "]" /\ \A k \in (j + 1)..Len(text) : text[k] # "]"
    /\ \A k \in (i + 1)..(j - 1) : text[k] \in ParserTokens

\* C26: called on a text that is empty, holds no array or holds an array that
\* does not parse, parseSubtasksFromText throws nothing and returns exactly N
\* placeholders, the i-th (from 0) with id startId + i, title "Subtask <i+1>",
\* the fallback description, status pending, no dependencies and the parent id.
C26_FallbackPlaceholders ==
  (ParserReturned /\ ~ParsesAsArray(args.text)) =>
    /\ thrown = <<>>
    /\ returned.kind = "array"
    /\ Len(returned.items) = args.count
    /\ \A i \in 1..Len(returned.items) :
         returned.items[i] =
           [id |-> args.startId + i - 1,
            title |-> <<"Subtask ", i>>,
            description |-> "Auto-generated fallback subtask",
            status |-> "pending",
            dependencies |-> <<>>,
            parentTaskId |-> args.id]

C26_Witness ==
  /\ ParserReturned
  /\ args.text = <<"[", "p">>
  /\ args.count = 2 /\ args.startId = 3
  /\ Len(returned.items) = 2
  /\ returned.items[2].id = 4 /\ returned.items[2].title = <<"Subtask ", 2>>

\* the decimal numeral of n
DigitChar(d) == CASE d = 0 -> "0" [] d = 1 -> "1" [] d = 2 -> "2" [] OTHER -> "9"

RECURSIVE Decimal(_)
Decimal(n) ==
  IF n < 10 THEN <<DigitChar(n)>> ELSE Decimal(n \div 10) \o <<DigitChar(n % 10)>>

MaxDenoted == 30

\* the value is an integer or the numeral of one
DenotesInteger(dep) ==
  \/ dep.type = "number"
  \/ dep.type = "string" /\ \E n \in 0..MaxDenoted : Decimal(n) = dep.text

Denoted(dep) ==
  IF dep.type = "number" THEN dep.value
  ELSE CHOOSE n \in 0..MaxDenoted : Decimal(n) = dep.text

\* the objects of the text's array, in order
InputObjects(text) ==
  LET tokens == SelectSeq(text, LAMBDA t : t \in ParserTokens)
  IN [i \in 1..Len(tokens) |-> ParserObject(tokens[i])]

\* `out` is `deps` with the entries that denote an integer turned into that
\* integer, in the same order, and the others left out
IsCoercionOf(out, deps) ==
  LET kept == { i \in 1..Len(deps) : DenotesInteger(deps[i]) }
      rank(i) == Cardinality({ k \in kept : k <= i })
  IN /\ Len(out) = Cardinality(kept)
     /\ \A i \in kept : out[rank(i)] = Denoted(deps[i])

\* C27: every dependency value parseSubtasksFromText returns is a plain integer;
\* the list of a parsed element is the list the text gave it with numeric
\* strings turned into the integer they denote, integers kept, everything else
\* dropped and the order preserved; coercing the returned list again gives the
\* same list.
C27_DependenciesCoerced ==
  ParserReturned =>
    \A i \in 1..Len(returned.items) :
      LET out == returned.items[i].dependencies
      IN /\ \A j \in 1..Len(out) : out[j] \in Int
         /\ CoerceDependencies([j \in 1..Len(out) |-> Num(out[j])]) = out
         /\ ParsesAsArray(args.text) =>
              IsCoercionOf(out, InputObjects(args.text)[i].dependencies)

C27_Witness ==
  /\ ParserReturned
  /\ args.text = <<"[", "r", "q", "]">>
  /\ returned.items[1].dependencies = <<1, 12>>
  /\ returned.items[2].dependencies = <<1, 2>>

\* C28: of a structured provider error handleGeminiError makes the overload
\* message when its type is the overloaded one, the rate limit message when it
\* is 'rate_limit_error' and the request format message when it is
\* 'invalid_request_error'.
C28_StructuredMessages ==
  provErr.type = "error" =>
    /\ provErr.etype = "OVERLOADED_ERROR" => handleGeminiError(provErr) = <<MsgOverloaded>>
    /\ provErr.etype = "rate_limit_error" => handleGeminiError(provErr) = <<MsgRateLimit>>
    /\ provErr.etype = "invalid_request_error" =>
         handleGeminiError(provErr) = <<MsgInvalidRequest>>

\* C29: callGemini ends in Success only with a parsed JSON value whose tasks
\* field is an array, whether the value was accepted at once, after cleanup
\* attempts or after repair requests.
C29_SuccessHasTasksArray ==
  (op = "callGemini" /\ pc = "Success") =>
    /\ returned.kind = "json"
    /\ returned.json.ok
    /\ returned.json.tasks = "array"

C29_Witness ==
  /\ op = "callGemini" /\ pc = "Success"
  /\ sent["repair"] >= 1
  /\ respKinds.failed >= 1
  /\ returned.json.tasks = "array"

\* what processGeminiResponse, run on `text`, leaves behind in callGemini
ProcessedAs(text) ==
  LET out == processGeminiResponse(text, args.count, 0)
  IN /\ cleanups' = out.cleanups
     /\ out.kind = "return" => pc' = "Success" /\ returned' = ReturnJson(out.value)
     /\ out.kind = "retry" => pc' = "cg_repairing" /\ "repair" \in outstanding'
     /\ out.kind = "throw" => pc' \in {"Failed", "cg_backoff"} /\ failCause' = "processing"

NothingProcessed ==
  /\ UNCHANGED <<returned, cleanups, respKinds, repairs, warnings>>
  /\ sent'["repair"] = sent["repair"]

\* C30: while handleStreamingRequest reads its stream, each chunk is appended
\* at the end of the text read so far and nothing is processed; when the stream
\* ends, the text processed starts with all the chunks read, in their order of
\* arrival; when the stream fails, whatever was read is not processed and the
\* request ends in an error.
C30_StreamAccumulated ==
  [][pc = "cg_streaming" =>
       \/ /\ pc' = "cg_streaming"
          /\ \/ responseText' = responseText
             \/ \E chunkText \in StreamChunks : responseText' = responseText \o chunkText
          /\ NothingProcessed
       \/ /\ pc' # "cg_streaming"
          /\ provErr' # NoError
          /\ NothingProcessed
          /\ pc' \in {"Failed", "cg_backoff"}
          /\ caught' = NewError(handleGeminiError(provErr'))
       \/ /\ pc' # "cg_streaming"
          /\ provErr' = NoError
          /\ \E text \in Texts : IsPrefix(responseText, text) /\ ProcessedAs(text)]_vars

C30_Witness ==
  /\ pc = "cg_streaming"
  /\ responseText = <<"{", "t">>


(* --------------------------- Claims C31-C36 --------------------------- *)
\* C31: when an operation has returned or thrown, every loading indicator it
\* started has been stopped.
C31_IndicatorsStopped == pc \in Terminal => indicators = {}


\* C32: one invocation of callGemini issues at most 9 provider requests: at
\* most 3 streaming requests, each followed by at most 2 repair requests, and
\* every streaming request after the first starts with the repair count at 0.
C32_AtMostNineRequests ==
  InCallGemini =>
    /\ requests <= 9
    /\ attempts <= 3
    /\ repairs <= 2
    /\ requests <= attempts * 3
    /\ pc = "cg_streaming" => repairs = 0 /\ procCount = 0

C32_Witness ==
  /\ InCallGemini
  /\ pc = "Failed"
  /\ requests = 9
  /\ attempts = 3
  /\ repairs = 2


InCreateSubtasks == op = "createSubtasksWithGemini"

PrimaryPhase == {"cs_generating", "cs_fixing"}

\* C33: after its research step createSubtasksWithGemini sends one generation
\* request and at most one fixSubtasksJson request, the latter only when the
\* generation response gave no array; a failed request or a second response
\* without an array ends the run in Failed, with no wait and no further request.
C33_AtMostOneFix ==
  [][(InCreateSubtasks /\ pc \in PrimaryPhase /\ pc' # pc) =>
       /\ op' = op
       /\ sent["subtasks"] = 1 /\ sent'["subtasks"] = 1
       /\ sent'["fix"] <= 1
       /\ waitTime' = 0 /\ waits' = waits
       /\ IF pc = "cs_generating"
          THEN \/ pc' = "Success" /\ returned'.kind = "array" /\ sent'["fix"] = 0
               \/ pc' = "cs_fixing" /\ returned' = NoReturn /\ sent'["fix"] = 1
               \/ pc' = "Failed" /\ failCause' = "transport" /\ sent'["fix"] = 0
          ELSE /\ sent' = sent
               /\ \/ pc' = "Success" /\ returned'.kind = "array"
                  \/ pc' = "Failed" /\ failCause' \in {"transport", "processing"}
    ]_vars

C33_Witness ==
  /\ InCreateSubtasks
  /\ pc = "Failed"
  /\ failCause = "processing"
  /\ sent["subtasks"] = 1
  /\ sent["fix"] = 1
  /\ sent["research"] > 0


\* C34: for every text the stream can end with, cleaning the cleaned text
\* changes nothing, and the cleaned text yields the same JSON candidate as the
\* text itself (so a cleanup attempt fails the way the first attempt did).
C34_CleanupKeepsCandidate ==
  pc = "cg_streaming" =>
    \A text \in Texts :
      IsPrefix(responseText, text) =>
        /\ cleanupJsonResponse(cleanupJsonResponse(text)) = cleanupJsonResponse(text)
        /\ Candidate(cleanupJsonResponse(text)) = Candidate(text)


ResearchPcs == {"rs_researching", "rs_refining", "rs_backoff", "rs_fallback"}

\* C35: expandTaskWithResearch makes at most 3 research attempts; every error of
\* the research request or of the refine step is followed by a wait of 5000 ms,
\* then of 10000 ms, and the third by one call of expandTaskWithGemini; the
\* run fails only when that call has failed.
C35_ThreeAttemptsThenFallback ==
  [][(pc \in ResearchPcs \/ pc' \in ResearchPcs) =>
       /\ researchRetry' <= 2
       /\ clientCalls' <= 3
       /\ sent'["research"] <= 3 /\ sent'["refine"] <= sent'["research"]
       /\ sent'["fallback"] <= 1
       /\ IsPrefix(waits', <<5000, 10000>>)
       /\ pc' \in ResearchPcs \ {"rs_fallback"} => sent'["fallback"] = 0
       /\ pc' = "rs_backoff" =>
            /\ Len(waits') = researchRetry' + 1
            /\ waitTime' = waits'[Len(waits')]
       /\ pc' = "rs_fallback" =>
            /\ researchRetry' = 2 /\ waits' = <<5000, 10000>>
            /\ sent'["fallback"] = 1
       /\ (pc \in {"rs_researching", "rs_refining"} /\ pc' \notin {pc, "rs_refining"}
           /\ ~(pc = "rs_refining" /\ returned'.kind = "text")
           /\ ~(pc = "rs_refining" /\ pc' \in {"cs_generating", "ac_generating"})) =>
            pc' = IF researchRetry < 2 THEN "rs_backoff" ELSE "rs_fallback"
       /\ pc' = "Failed" => pc = "rs_fallback" /\ failCause' = "transport"
    ]_vars

C35_Witness ==
  /\ op = "expandTaskWithResearch"
  /\ pc = "Failed"
  /\ waits = <<5000, 10000>>
  /\ sent["research"] = 3
  /\ sent["refine"] >= 1
  /\ sent["fallback"] = 1


\* a step in which getPerplexityClient is called: an exported function starts
\* its research step, or expandTaskWithResearch calls itself after its wait
ClientCallStep ==
  \/ pc \in Terminal \cup {"idle"} /\ pc' \in ResearchPcs
  \/ pc = "rs_backoff" /\ researchRetry' = researchRetry + 1

MissingKeyCaught == caught' = NewError(<<MsgMissingKey>>)

\* C36: a call of getPerplexityClient made with no stored client and no
\* credential throws the missing-credential error and leaves the stored client
\* null, with nothing constructed; made with no stored client and the
\* credential present it constructs and stores the client; and it throws only
\* in the first case.
C36_FailedCallKeepsNull ==
  [][ClientCallStep =>
       /\ (perplexity = 0 /\ ~keyPresent) =>
            /\ MissingKeyCaught
            /\ perplexity' = 0 /\ client' = 0
            /\ constructions' = constructions
       /\ (perplexity = 0 /\ keyPresent) =>
            /\ ~MissingKeyCaught
            /\ perplexity' # 0 /\ client' = perplexity'
            /\ constructions' = constructions + 1
       /\ MissingKeyCaught => perplexity = 0 /\ ~keyPresent
    ]_vars

C36_Witness ==
  /\ pc = "rs_researching"
  /\ researchRetry = 2
  /\ clientCalls = 3
  /\ sent["research"] = 1
  /\ perplexity = 1 /\ client = 1 /\ constructions = 1

====
